---- MODULE Spec2Model ----
(***************************************************************************)
(* Camera pose and intrinsics helpers of nsr/camera_utils.py.              *)
(*                                                                         *)
(* Every function of the file is a pure function of its arguments and of  *)
(* the random draws it makes.  The state machine below is a caller: from   *)
(* the idle state it calls one function with arguments (and draws) taken   *)
(* from small sets, the call's arguments and result become the state, and  *)
(* Return leads back to the idle state.                                    *)
(*                                                                         *)
(* Numbers.  The code computes in IEEE floating point.  The model computes *)
(* exactly, with the numbers  (p/q) * sqrt(m)  (p/q a reduced fraction, m  *)
(* square-free): the rationals, and the square roots that normalising a    *)
(* vector and the sines and cosines of the angles used below produce.      *)
(* NaN is the one IEEE special value the functions produce from finite     *)
(* arguments (0/0 when a zero vector is normalised); it propagates through *)
(* every operation, 0 * NaN included, as it does in IEEE arithmetic.       *)
(* Angles are measured in units of pi (the angle a stands for a*pi rad).   *)
(***************************************************************************)
EXTENDS Integers, Sequences, FiniteSets, TLC

\* call: the function called and its arguments (and the draws of its random
\* source); locals: the local variables the call computed on the way;
\* ret: what the call returned or raised.
VARIABLES call, locals, ret

vars == <<call, locals, ret>>

(***************************************************************************)
(* Integer helpers.                                                        *)
(***************************************************************************)
Abs(x) == IF x < 0 THEN -x ELSE x

Sign(x) == IF x < 0 THEN -1 ELSE IF x = 0 THEN 0 ELSE 1

RECURSIVE Gcd(_, _)
Gcd(a, b) == IF b = 0 THEN a ELSE Gcd(b, a % b)

\* Largest m with m*m <= n, by bisection between lo (lo*lo <= n) and hi.
RECURSIVE Bisect(_, _, _)
Bisect(n, lo, hi) ==
    IF hi - lo <= 1 THEN lo
    ELSE LET m == (lo + hi) \div 2
         IN IF m * m <= n THEN Bisect(n, m, hi) ELSE Bisect(n, lo, m)

ISqrt(n) == Bisect(n, 0, IF n < 46340 THEN n + 1 ELSE 46341)

IsSquare(n) == ISqrt(n) * ISqrt(n) = n

(***************************************************************************)
(* Scalars: [k |-> "num", p, q, m] is (p/q) * sqrt(m) with q > 0,          *)
(* gcd(p, q) = 1 and m >= 1 square-free (m = 1: a rational); zero is       *)
(* p = 0, q = 1, m = 1.  Equal numbers are equal records.                  *)
(* "nan" is IEEE NaN.  "irr" marks a sum of two square roots that is not   *)
(* of this form; the arguments of the calls are chosen so that no such sum *)
(* is formed (AllExact below).                                             *)
(***************************************************************************)
NaN == [k |-> "nan", p |-> 0, q |-> 1, m |-> 1]

Irr == [k |-> "irr", p |-> 0, q |-> 1, m |-> 1]

Zero == [k |-> "num", p |-> 0, q |-> 1, m |-> 1]

\* p/q reduced by their common divisor g.
Reduced(p, q, m, g) == [k |-> "num", p |-> p \div g, q |-> q \div g, m |-> m]

\* (p/q) * sqrt(m), q > 0, m square-free.
Num(p, q, m) == IF p = 0 THEN Zero ELSE Reduced(p, q, m, Gcd(Abs(p), q))

\* The rational p/q, q > 0.
Rat(p, q) == Num(p, q, 1)

Whole(p) == Rat(p, 1)

One == Whole(1)

IsNum(x) == x.k = "num"

IsZero(x) == x.k = "num" /\ x.p = 0

IsRational(x) == x.k = "num" /\ x.m = 1

\* The special value an operation on x and y propagates.
Special(x, y) == IF x.k = "nan" \/ y.k = "nan" THEN NaN ELSE Irr

Neg(x) == IF IsNum(x) THEN [x EXCEPT !.p = -x.p] ELSE x

\* The product of the coefficients xp/xq, yp/yq and g, with g reduced against
\* the denominators first (g3 divides xq, g4 divides yq).
MulReduced(xp, xq, yp, yq, g, g3, g4, m) ==
    Num(xp * yp * ((g \div g3) \div g4), (xq \div g3) * (yq \div g4), m)

MulBy(xp, xq, yp, yq, g, g3, m) ==
    MulReduced(xp, xq, yp, yq, g, g3, Gcd(g \div g3, yq), m)

\* xp/xq and yp/yq have been reduced crosswise.
MulCross(xp, xq, yp, yq, g, m) == MulBy(xp, xq, yp, yq, g, Gcd(g, xq), m)

MulWith(x, y, g, g1, g2) ==
    MulCross(x.p \div g1, x.q \div g2, y.p \div g2, y.q \div g1, g,
             (x.m \div g) * (y.m \div g))

\* sqrt(m1) * sqrt(m2) = g * sqrt((m1/g) * (m2/g)) for g = gcd(m1, m2).
Mul(x, y) ==
    IF ~(IsNum(x) /\ IsNum(y)) THEN Special(x, y)
    ELSE IF x.p = 0 \/ y.p = 0 THEN Zero
    ELSE MulWith(x, y, Gcd(x.m, y.m), Gcd(Abs(x.p), y.q), Gcd(Abs(y.p), x.q))

\* x / y.  The divisors are norms of vectors and tangents of non-zero angles: a
\* zero divisor is the norm of a zero vector and meets a zero dividend, 0/0 = NaN.
\* 1 / ((p/q) * sqrt(m)) = (q/p) * (sqrt(m) / m).
Div(x, y) ==
    IF ~(IsNum(x) /\ IsNum(y)) THEN Special(x, y)
    ELSE IF y.p = 0 THEN NaN
    ELSE Mul(Mul(x, Rat(Sign(y.p) * y.q, Abs(y.p))), Num(1, y.m, y.m))

AddOver(x, y, g) ==
    Num(x.p * (y.q \div g) + y.p * (x.q \div g), (x.q \div g) * y.q, x.m)

\* x + y: the coefficients add when the square roots are the same.
Add(x, y) ==
    IF ~(IsNum(x) /\ IsNum(y)) THEN Special(x, y)
    ELSE IF x.p = 0 THEN y
    ELSE IF y.p = 0 THEN x
    ELSE IF x.m # y.m THEN Irr
    ELSE AddOver(x, y, Gcd(x.q, y.q))

Sub(x, y) == Add(x, Neg(y))

\* x < y, for numbers whose difference is a number.
Negative(z) == IsNum(z) /\ z.p < 0

Less(x, y) == Negative(Sub(x, y))

\* n = a * a * u with u square-free, as <<a, u>>: trial division by f while
\* f^3 <= n; what is left then is 1, a prime, a prime squared or a product of
\* two primes.
RECURSIVE SquarePart(_, _, _, _)
SquarePart(n, f, a, u) ==
    IF f > 1290 \/ f * f * f > n
    THEN (IF IsSquare(n) THEN <<a * ISqrt(n), u>> ELSE <<a, u * n>>)
    ELSE IF n % (f * f) = 0 THEN SquarePart(n \div (f * f), f, a * f, u)
    ELSE IF n % f = 0 THEN SquarePart(n \div f, f + 1, a, u * f)
    ELSE SquarePart(n, f + 1, a, u)

\* sqrt(p/q) = (a / (b*w)) * sqrt(u*w) for p = a*a*u (P = <<a, u>>) and
\* q = b*b*w (Q = <<b, w>>).
SqrtOf(P, Q) == Num(P[1], Q[1] * Q[2], P[2] * Q[2])

\* The non-negative square root of a rational x >= 0.
Sqrt(x) ==
    IF ~IsNum(x) THEN x
    ELSE IF x.m # 1 THEN Irr
    ELSE IF x.p < 0 THEN NaN
    ELSE IF x.p = 0 THEN Zero
    ELSE SqrtOf(SquarePart(x.p, 2, 1, 1), SquarePart(x.q, 2, 1, 1))

(***************************************************************************)
(* 3-vectors <<x, y, z>> and 4x4 matrices (a tuple of four rows of four    *)
(* scalars).  Python's index i is the model's index i + 1.  A batch is a   *)
(* sequence, one element per row of the batch dimension.                   *)
(***************************************************************************)
Vec(x, y, z) == <<Whole(x), Whole(y), Whole(z)>>

VNeg(v) == <<Neg(v[1]), Neg(v[2]), Neg(v[3])>>

VSub(a, b) == <<Sub(a[1], b[1]), Sub(a[2], b[2]), Sub(a[3], b[3])>>

Dot(a, b) == Add(Add(Mul(a[1], b[1]), Mul(a[2], b[2])), Mul(a[3], b[3]))

\* torch.cross(a, b, dim=-1) on one row.
Cross(a, b) ==
    <<Sub(Mul(a[2], b[3]), Mul(a[3], b[2])),
      Sub(Mul(a[3], b[1]), Mul(a[1], b[3])),
      Sub(Mul(a[1], b[2]), Mul(a[2], b[1]))>>

\* torch.norm(v, dim=-1) on one row.
Norm(v) == Sqrt(Dot(v, v))

\* v / len, component by component.
DivideBy(v, len) == <<Div(v[1], len), Div(v[2], len), Div(v[3], len)>>

\* The local normalize_vecs of generate_input_camera, on one row:
\* vectors / torch.norm(vectors, dim=-1, keepdim=True).
normalize_vecs(v) == DivideBy(v, Norm(v))

\* math_utils.normalize_vecs, imported from nsr.volumetric_rendering (not part
\* of the file): divides each vector by its Euclidean norm, a zero vector
\* giving 0/0 = NaN in every component.
math_utils_normalize_vecs(v) == DivideBy(v, Sqrt(Dot(v, v)))

\* torch.eye(4)
Eye4 ==
    <<<<One, Zero, Zero, Zero>>,
      <<Zero, One, Zero, Zero>>,
      <<Zero, Zero, One, Zero>>,
      <<Zero, Zero, Zero, One>>>>

\* Entry (i, j) of A @ B: the sum over k of A[i][k] * B[k][j].
MatMulEntry(A, B, i, j) ==
    Add(Add(Add(Mul(A[i][1], B[1][j]), Mul(A[i][2], B[2][j])),
            Mul(A[i][3], B[3][j])),
        Mul(A[i][4], B[4][j]))

\* A @ B for 4x4 matrices.
MatMul(A, B) == [i \in 1..4 |-> [j \in 1..4 |-> MatMulEntry(A, B, i, j)]]

\* m[:3, :3] = torch.stack((c1, c2, c3), axis=-1): the vectors become the columns.
SetRotation(m, c1, c2, c3) ==
    <<<<c1[1], c2[1], c3[1], m[1][4]>>,
      <<c1[2], c2[2], c3[2], m[2][4]>>,
      <<c1[3], c2[3], c3[3], m[3][4]>>,
      m[4]>>

\* m[:3, 3] = t
SetTranslation(m, t) ==
    <<<<m[1][1], m[1][2], m[1][3], t[1]>>,
      <<m[2][1], m[2][2], m[2][3], t[2]>>,
      <<m[3][1], m[3][2], m[3][3], t[3]>>,
      m[4]>>

\* Column j (Python's [:3, j-1]) of a 4x4 matrix, as a 3-vector.
Column(m, j) == <<m[1][j], m[2][j], m[3][j]>>

Ok(v) == [err |-> "none", val |-> v]

Raise(e) == [err |-> e, val |-> <<>>]

(***************************************************************************)
(* create_cam2world_matrix(forward_vector, origin)                         *)
(***************************************************************************)
WorldUp == Vec(0, 1, 0)

\* A faulty RightOf: the cross product is not normalised.
RightOfUnnormalised(up, forward) == VNeg(Cross(up, forward))

\* right_vector = -normalize_vecs(cross(up_vector, forward_vector))
RightOf(up, forward) == VNeg(math_utils_normalize_vecs(Cross(up, forward)))

\* A faulty UpOf: the operands of the cross product are exchanged.
UpOfExchanged(forward, right) == math_utils_normalize_vecs(Cross(right, forward))

\* up_vector = normalize_vecs(cross(forward_vector, right_vector))
UpOf(forward, right) == math_utils_normalize_vecs(Cross(forward, right))

\* A faulty Cam2World: the factors of the product are exchanged, which rotates
\* the origin.
Cam2WorldRotationFirst(translation_matrix, rotation_matrix) ==
    MatMul(rotation_matrix, translation_matrix)

\* cam2world = translation_matrix @ rotation_matrix
Cam2World(translation_matrix, rotation_matrix) ==
    MatMul(translation_matrix, rotation_matrix)

\* The two matrices, from the three columns and the origin.
Cam2WorldOf(right, up, forward, origin) ==
    Cam2World(SetTranslation(Eye4, origin), SetRotation(Eye4, right, up, forward))

Cam2WorldFromRight(right, forward, origin) ==
    Cam2WorldOf(right, UpOf(forward, right), forward, origin)

\* forward: the normalised forward vector.
Cam2WorldFromForward(forward, origin) ==
    Cam2WorldFromRight(RightOf(WorldUp, forward), forward, origin)

\* One row of the batch.
Cam2WorldRow(forward_in, origin) ==
    Cam2WorldFromForward(math_utils_normalize_vecs(forward_in), origin)

\* translation_matrix[:, :3, 3] = origin broadcasts an origin of one row over
\* the batch; any other difference in the number of rows is the tensor
\* library's shape error.
create_cam2world_matrix(forward_vector, origin) ==
    LET B == Len(forward_vector)
    IN IF Len(origin) # B /\ Len(origin) # 1 THEN Raise("RuntimeError")
       ELSE Ok([i \in 1..B |->
                  Cam2WorldRow(forward_vector[i],
                               IF Len(origin) = B THEN origin[i] ELSE origin[1])])

(***************************************************************************)
(* Angles and the trigonometric functions.  An angle is a rational number  *)
(* of half-turns (units of pi).  sin and cos are exact on the multiples of *)
(* 30 and of 45 degrees, where their values are 0, 1/2, sqrt(1/2),         *)
(* sqrt(3/4) and 1 up to sign; the calls below use such angles only.       *)
(***************************************************************************)
Two == Whole(2)

\* math.pi
Pi == One

\* cos(m * 15 degrees) for m in 0..6.
CosFirstQuadrant(m) ==
    CASE m = 0 -> One
      [] m = 2 -> Num(1, 2, 3)
      [] m = 3 -> Num(1, 2, 2)
      [] m = 4 -> Rat(1, 2)
      [] m = 6 -> Zero
      [] OTHER -> Irr

\* cos(k * 15 degrees), any integer k.
CosTwelfths(k) ==
    LET m == k % 24
    IN IF m <= 6 THEN CosFirstQuadrant(m)
       ELSE IF m <= 12 THEN Neg(CosFirstQuadrant(12 - m))
       ELSE IF m <= 18 THEN Neg(CosFirstQuadrant(m - 12))
       ELSE CosFirstQuadrant(24 - m)

\* torch.cos / np.cos of the angle a.
Cos(a) ==
    IF ~IsNum(a) THEN a
    ELSE IF a.m # 1 \/ (12 * a.p) % a.q # 0 THEN Irr
    ELSE CosTwelfths((12 * a.p) \div a.q)

\* torch.sin / np.sin: sin(a) = cos(a - pi/2).
Sin(a) == Cos(Sub(a, Rat(1, 2)))

\* np.tan
Tan(a) == Div(Sin(a), Cos(a))

\* torch.arccos(c): the angle phi of [0, pi] with cos(phi) = c, NaN outside
\* [-1, 1].  phi is kept as its cosine: it is in general no angle of the grid.
ArcCos(c) ==
    IF IsNum(c) /\ ~Less(One, c) /\ ~Less(c, Neg(One))
    THEN [defined |-> TRUE, cos |-> c]
    ELSE [defined |-> FALSE, cos |-> IF IsNum(c) THEN NaN ELSE c]

\* torch.cos(phi) and torch.sin(phi) for phi = arccos(c): c and sqrt(1 - c*c) >= 0.
CosPhi(phi) == phi.cos

SinPhi(phi) ==
    IF phi.defined THEN Sqrt(Sub(One, Mul(phi.cos, phi.cos))) ELSE phi.cos

\* np.deg2rad
deg2rad(x) == Div(Mul(x, Pi), Whole(180))

(***************************************************************************)
(* The pose samplers.  The three sample methods repeat the same lines; the *)
(* steps they share are the operators below.                               *)
(***************************************************************************)
\* The margin 1e-5 rad of the clamp is pi/314159.27.  Products of four such
\* denominators are formed on the way to the pose, which TLC's 32-bit
\* integers hold only for a coarser margin: the model's is pi/ClampMarginInv.
ClampMarginInv == 1000

ClampLo == Rat(1, ClampMarginInv)

ClampHi == Sub(Pi, ClampLo)

\* torch.clamp(v, lo, hi)
Clamp(v, lo, hi) == IF Less(v, lo) THEN lo ELSE IF Less(hi, v) THEN hi ELSE v

\* A faulty RandnDraw: the draw is not scaled by the standard deviation.
RandnDrawUnscaled(n, stddev, mean) == Add(n, mean)

\* torch.randn(...) * stddev + mean, for the draw n of randn.
RandnDraw(n, stddev, mean) == Add(Mul(n, stddev), mean)

\* (torch.rand(...) * 2 - 1) * stddev + mean, for the draw u of rand.
RandDraw(u, stddev, mean) == Add(Mul(Sub(Mul(u, Two), One), stddev), mean)

\* A faulty ClampVertical: the clamp to [0, pi], without the margin.
ClampVerticalNoMargin(v) == Clamp(v, Zero, Pi)

\* v = torch.clamp(v, 1e-5, math.pi - 1e-5)
ClampVertical(v) == Clamp(v, ClampLo, ClampHi)

\* 1 - 2 * (v / math.pi), the argument of arccos
ArcCosArg(v) == Sub(One, Mul(Two, Div(v, Pi)))

\* camera_origins[:, 0:1], [:, 1:2], [:, 2:3] of one row
CameraOrigin(radius, phi, theta) ==
    <<Mul(Mul(radius, SinPhi(phi)), Cos(Sub(Pi, theta))),
      Mul(radius, CosPhi(phi)),
      Mul(Mul(radius, SinPhi(phi)), Sin(Sub(Pi, theta)))>>

\* The local variables of one row of the batch, from the row's h and raw v.
RowFromPhi(theta, v_raw, v, arccos_arg, phi, radius) ==
    [theta |-> theta, v_raw |-> v_raw, v |-> v, arccos_arg |-> arccos_arg,
     phi |-> phi, camera_origin |-> CameraOrigin(radius, phi, theta)]

\* phi = torch.arccos(1 - 2 * v)
RowFromArg(theta, v_raw, v, arccos_arg, radius) ==
    RowFromPhi(theta, v_raw, v, arccos_arg, ArcCos(arccos_arg), radius)

RowFromV(theta, v_raw, v, radius) ==
    RowFromArg(theta, v_raw, v, ArcCosArg(v), radius)

\* theta = h; v = torch.clamp(v, ...)
SamplerRow(h, v_raw, radius) == RowFromV(h, v_raw, ClampVertical(v_raw), radius)

\* forward_vectors = normalize_vecs(-camera_origins), one row
ForwardToWorldOrigin(camera_origin) ==
    math_utils_normalize_vecs(VNeg(camera_origin))

\* A faulty ForwardToLookAt: the camera looks at the world origin.
ForwardIgnoringLookAt(lookat_position, camera_origin) ==
    math_utils_normalize_vecs(VNeg(camera_origin))

\* forward_vectors = normalize_vecs(lookat_position - camera_origins), one row
ForwardToLookAt(lookat_position, camera_origin) ==
    math_utils_normalize_vecs(VSub(lookat_position, camera_origin))

\* a: the arguments; draws: the rows' draws <<n_h, n_v>> of torch.randn.
\* The result: the rows' local variables.
GaussianLocals(a, draws) ==
    [i \in 1..Len(draws) |->
        SamplerRow(RandnDraw(draws[i][1], a.horizontal_stddev, a.horizontal_mean),
                   RandnDraw(draws[i][2], a.vertical_stddev, a.vertical_mean),
                   a.radius)]

\* draws: the rows' draws <<u_h, u_v>> of torch.rand.
UniformLocals(a, draws) ==
    [i \in 1..Len(draws) |->
        SamplerRow(RandDraw(draws[i][1], a.horizontal_stddev, a.horizontal_mean),
                   RandDraw(draws[i][2], a.vertical_stddev, a.vertical_mean),
                   a.radius)]

\* return create_cam2world_matrix(forward_vectors, camera_origins), the cameras
\* looking at the world origin; l: the rows' local variables.
PosesToWorldOrigin(l) ==
    create_cam2world_matrix(
        [i \in 1..Len(l) |-> ForwardToWorldOrigin(l[i].camera_origin)],
        [i \in 1..Len(l) |-> l[i].camera_origin])

PosesToLookAt(lookat_position, l) ==
    create_cam2world_matrix(
        [i \in 1..Len(l) |-> ForwardToLookAt(lookat_position, l[i].camera_origin)],
        [i \in 1..Len(l) |-> l[i].camera_origin])

\* torch.randn((batch_size, 1)) and torch.rand((batch_size, 1)) refuse a
\* negative size with the tensor library's RuntimeError.
GaussianCameraPoseSampler_sample(a, draws) ==
    IF a.batch_size < 0 THEN Raise("RuntimeError")
    ELSE PosesToWorldOrigin(GaussianLocals(a, draws))

LookAtPoseSampler_sample(a, draws) ==
    IF a.batch_size < 0 THEN Raise("RuntimeError")
    ELSE PosesToLookAt(a.lookat_position, GaussianLocals(a, draws))

UniformCameraPoseSampler_sample(a, draws) ==
    IF a.batch_size < 0 THEN Raise("RuntimeError")
    ELSE PosesToWorldOrigin(UniformLocals(a, draws))

(***************************************************************************)
(* FOV_to_intrinsics.  The function computes with 3.14159 and 1.414, not   *)
(* with pi and sqrt(2); its values are kept as fractions <<p, q>> = p/q of *)
(* the constants and of math.tan rounded to three decimals.                *)
(***************************************************************************)
\* math.tan(fov_degrees * 3.14159 / 360)
TanHalfFov(fov_degrees) ==
    CASE fov_degrees = -90 -> <<-1000, 1000>>
      [] fov_degrees = 0 -> <<0, 1000>>
      [] fov_degrees = 30 -> <<268, 1000>>
      [] fov_degrees = 90 -> <<1000, 1000>>
      [] fov_degrees = 120 -> <<1732, 1000>>
      [] fov_degrees = 180 -> <<753696, 1>>
      [] fov_degrees = 200 -> <<-5671, 1000>>
      [] fov_degrees = 270 -> <<-1000, 1000>>

\* 1 / (t * 1.414) for the fraction t # 0.
FocalLength(t) ==
    IF t[1] < 0 THEN <<-(t[2] * 1000), -(t[1] * 1414)>>
    ELSE <<t[2] * 1000, t[1] * 1414>>

\* [[focal_length, 0, 0.5], [0, focal_length, 0.5], [0, 0, 1]]
IntrinsicsOf(f) ==
    <<<<f, <<0, 1>>, <<1, 2>>>>,
      <<<<0, 1>>, f, <<1, 2>>>>,
      <<<<0, 1>>, <<0, 1>>, <<1, 1>>>>>>

\* A FOV_to_intrinsics that validates its argument, which the code does not.
FOV_to_intrinsics_Validating(fov_degrees) ==
    IF ~(0 < fov_degrees /\ fov_degrees < 180) THEN Raise("InvalidArgument")
    ELSE Ok(IntrinsicsOf(FocalLength(TanHalfFov(fov_degrees))))

\* Python's float division raises ZeroDivisionError on a zero divisor.
FOV_to_intrinsics(fov_degrees) ==
    IF TanHalfFov(fov_degrees)[1] = 0 THEN Raise("ZeroDivisionError")
    ELSE Ok(IntrinsicsOf(FocalLength(TanHalfFov(fov_degrees))))

(***************************************************************************)
(* generate_input_camera(r, poses, fov) and uni_mesh_path                  *)
(***************************************************************************)
Half == Rat(1, 2)

\* up_vector = [0, 0, -1]
InputCameraUp == Vec(0, 0, -1)

\* cam_pos of one row: x, y, z from pitch and yaw (radians).
CamPos(r, pitch, yaw) ==
    <<Mul(Mul(r, Cos(pitch)), Cos(yaw)),
      Mul(Mul(r, Cos(pitch)), Sin(yaw)),
      Mul(r, Sin(pitch))>>

\* cam2world = translation_matrix @ rotation_matrix, from the columns of rotate
\* and cam_pos.
InputCameraOf(left_vector, up_vector, forward_vector, cam_pos) ==
    MatMul(SetTranslation(Eye4, cam_pos),
           SetRotation(Eye4, left_vector, up_vector, forward_vector))

InputCameraFromLeft(left_vector, forward_vector, cam_pos) ==
    InputCameraOf(left_vector,
                  normalize_vecs(Cross(forward_vector, left_vector)),
                  forward_vector, cam_pos)

InputCameraFromForward(forward_vector, cam_pos) ==
    InputCameraFromLeft(normalize_vecs(Cross(InputCameraUp, forward_vector)),
                        forward_vector, cam_pos)

InputCameraAt(cam_pos) ==
    InputCameraFromForward(normalize_vecs(VNeg(cam_pos)), cam_pos)

\* cam2world of one row; pose = <<pitch, yaw>> in degrees.
InputCameraRow(r, pose) ==
    InputCameraAt(CamPos(r, deg2rad(pose[1]), deg2rad(pose[2])))

\* The batch: the tensor operations act on every row alike.
InputCameraRows(r, poses) ==
    [i \in 1..Len(poses) |-> InputCameraRow(r, poses[i])]

\* fx = 0.5 / np.tan(np.deg2rad(fov / 2)); fxfycxcy = [fx, fx, 0.5, 0.5]
FxFyCxCy(fx) == <<fx, fx, Half, Half>>

InputCameraIntrinsics(fov) == FxFyCxCy(Div(Half, Tan(deg2rad(Div(fov, Two)))))

\* poses[:, 0] of an empty list of poses (a tensor of one dimension) is an
\* IndexError.
generate_input_camera(r, poses, fov) ==
    IF Len(poses) = 0 THEN Raise("IndexError")
    ELSE Ok([cam2world |-> InputCameraRows(r, poses),
             fxfycxcy |-> InputCameraIntrinsics(fov)])

\* for elevation in [60, 30, 0, -30, -60]
MeshElevations == <<60, 30, 0, -30, -60>>

\* A faulty MeshLoop: the loop over the azimuths is the outer one.
MeshLoopAzimuthOuter(frame_number) ==
    LET N == IF frame_number > 0 THEN Len(MeshElevations) * frame_number ELSE 0
    IN [azimuths |->
          [k \in 1..N |->
             Mul(Div(Whole((k - 1) \div Len(MeshElevations)), Whole(frame_number)),
                 Whole(360))],
        elevations |->
          [k \in 1..N |-> Whole(MeshElevations[((k - 1) % Len(MeshElevations)) + 1])]]

\* The two loops: entry k (from 0) is appended in round k \div frame_number of
\* the outer loop and round k % frame_number of the inner one.
MeshLoop(frame_number) ==
    LET N == IF frame_number > 0 THEN Len(MeshElevations) * frame_number ELSE 0
    IN [azimuths |->
          [k \in 1..N |->
             Mul(Div(Whole((k - 1) % frame_number), Whole(frame_number)),
                 Whole(360))],
        elevations |->
          [k \in 1..N |-> Whole(MeshElevations[((k - 1) \div frame_number) + 1])]]

\* A faulty MeshK: the intrinsics of the 30-degree field of view that
\* generate_input_camera was called with take the place of the fixed ones.
MeshKFromFov ==
    <<Rat(18660, 10000), Zero, Half,
      Zero, Rat(18660, 10000), Half,
      Zero, Zero, One>>

\* K = th.Tensor([1.3889, 0, 0.5, 0, 1.3889, 0.5, 0, 0, 0.0039])
MeshK ==
    <<Rat(13889, 10000), Zero, Half,
      Zero, Rat(13889, 10000), Half,
      Zero, Zero, Rat(39, 10000)>>

\* m.reshape(-1) of a 4x4 matrix: row after row.
Flatten(m) == m[1] \o m[2] \o m[3] \o m[4]

\* th.cat([zero123pp_pose.reshape(all_frame_number, -1), K.unsqueeze(0).repeat(...)], dim=-1)
MeshRows(zero123pp_pose, K) ==
    [i \in 1..Len(zero123pp_pose) |-> Flatten(zero123pp_pose[i]) \o K]

\* [[elevations[i], azimuths[i]] for i in range(all_frame_number)]
MeshPoses(l) == [i \in 1..Len(l.azimuths) |-> <<l.elevations[i], l.azimuths[i]>>]

\* got: what generate_input_camera returned or raised.
MeshPathFrom(got) ==
    IF got.err # "none" THEN got ELSE Ok(MeshRows(got.val.cam2world, MeshK))

uni_mesh_path(frame_number, radius) ==
    MeshPathFrom(
        generate_input_camera(radius, MeshPoses(MeshLoop(frame_number)), Whole(30)))

(***************************************************************************)
(* The arguments the calls are made with.                                  *)
(***************************************************************************)
MaxBatch == 2

MaxPoses == 2

\* Forward vectors: generic ones, one parallel to the world-up vector and
\* the zero vector.
Forwards ==
    {Vec(0, 0, 1), Vec(1, 2, 2), Vec(1, 1, 1), Vec(3, 0, -4), Vec(0, -3, 0),
     Vec(0, 0, 0)}

Origins == {Vec(1, 2, 3), <<Rat(-1, 2), Zero, Whole(2)>>}

SeqsUpTo(S, n) == UNION {[1..m -> S] : m \in 0..n}

HorizontalMeans == {Zero, Half}

VerticalMeans == {Half, Rat(1, 5), Rat(5, 4)}

Stddevs == {Zero, Half}

Radii == {Zero, One, Two}

BatchSizes == -1..MaxBatch

LookAts == {Vec(0, 0, 0), Vec(0, 1, 0), Vec(1, 0, -2)}

\* Draws of torch.randn and of torch.rand (rand draws from [0, 1)).
RandnDraws == {<<Whole(-1), One>>, <<One, Whole(-1)>>}

RandDraws == {<<Zero, Rat(3, 4)>>, <<Rat(3, 4), Zero>>}

SamplerArgs ==
    [horizontal_mean : HorizontalMeans, vertical_mean : VerticalMeans,
     horizontal_stddev : Stddevs, vertical_stddev : Stddevs,
     radius : Radii, batch_size : BatchSizes]

LookAtArgs ==
    [horizontal_mean : HorizontalMeans, vertical_mean : VerticalMeans,
     lookat_position : LookAts,
     horizontal_stddev : Stddevs, vertical_stddev : Stddevs,
     radius : Radii, batch_size : BatchSizes]

\* One pair of draws <<for h, for v>> per row of the batch.
DrawsFor(batch_size, D) ==
    [1..(IF batch_size > 0 THEN batch_size ELSE 0) -> D]

FovDegrees == {-90, 0, 30, 90, 120, 180, 200, 270}

\* Poses <<pitch, yaw>> in degrees, off the z axis (pitch 90 or -90), where the
\* rounding of np.deg2rad decides the direction of left_vector.
PoseGrid == {<<Whole(p), Whole(y)>> : p \in {60, -30, 0}, y \in {0, 45, 120}}

InputCameraRadii == {One, Rat(9, 5)}

InputCameraFovs == {Whole(30), Whole(90)}

\* Frame numbers whose azimuths i * 360 / frame_number are multiples of 30 or
\* of 45 degrees.
FrameNumbers == {0, 1, 2, 3, 4, 6, 8, 12}

MeshRadii == {Zero, One, Rat(9, 5)}

\* No entry of the value is a sum the numbers cannot represent.
ExactScalar(x) == x.k # "irr"

ExactMatrices(ms) ==
    \A b \in 1..Len(ms) :
       LET m == ms[b] IN \A i \in 1..4 : \A j \in 1..4 : ExactScalar(m[i][j])

(***************************************************************************)
(* The caller.                                                             *)
(***************************************************************************)
Idle == [fn |-> "idle", args |-> <<>>, draws |-> <<>>]

NoResult == [err |-> "none", val |-> <<>>]

Init ==
    /\ call = Idle
    /\ locals = <<>>
    /\ ret = NoResult

CallCreateCam2World ==
    /\ call.fn = "idle"
    /\ \E f \in SeqsUpTo(Forwards, MaxBatch), o \in SeqsUpTo(Origins, MaxBatch) :
          /\ call' = [fn |-> "create_cam2world_matrix",
                      args |-> [forward_vector |-> f, origin |-> o],
                      draws |-> <<>>]
          /\ locals' = <<>>
          /\ ret' = create_cam2world_matrix(f, o)

CallGaussianSample ==
    /\ call.fn = "idle"
    /\ \E a \in SamplerArgs :
          \E draws \in DrawsFor(a.batch_size, RandnDraws) :
             /\ call' = [fn |-> "GaussianCameraPoseSampler.sample",
                         args |-> a, draws |-> draws]
             /\ locals' = GaussianLocals(a, draws)
             /\ ret' = GaussianCameraPoseSampler_sample(a, draws)

\* Look-at positions off the y axis are paired with the origins whose x and z
\* are rational, so that lookat_position - camera_origins is exact.
CallLookAtSample ==
    /\ call.fn = "idle"
    /\ \E a \in LookAtArgs :
          \E draws \in DrawsFor(a.batch_size, RandnDraws) :
             /\ call' = [fn |-> "LookAtPoseSampler.sample",
                         args |-> a, draws |-> draws]
             /\ locals' = GaussianLocals(a, draws)
             /\ ret' = LookAtPoseSampler_sample(a, draws)
             /\ ExactMatrices(ret'.val)

CallUniformSample ==
    /\ call.fn = "idle"
    /\ \E a \in SamplerArgs :
          \E draws \in DrawsFor(a.batch_size, RandDraws) :
             /\ call' = [fn |-> "UniformCameraPoseSampler.sample",
                         args |-> a, draws |-> draws]
             /\ locals' = UniformLocals(a, draws)
             /\ ret' = UniformCameraPoseSampler_sample(a, draws)

CallFOVToIntrinsics ==
    /\ call.fn = "idle"
    /\ \E fov \in FovDegrees :
          /\ call' = [fn |-> "FOV_to_intrinsics",
                      args |-> [fov_degrees |-> fov], draws |-> <<>>]
          /\ locals' = <<>>
          /\ ret' = FOV_to_intrinsics(fov)

CallGenerateInputCamera ==
    /\ call.fn = "idle"
    /\ \E r \in InputCameraRadii, poses \in SeqsUpTo(PoseGrid, MaxPoses),
          fov \in InputCameraFovs :
          /\ call' = [fn |-> "generate_input_camera",
                      args |-> [r |-> r, poses |-> poses, fov |-> fov],
                      draws |-> <<>>]
          /\ locals' = <<>>
          /\ ret' = generate_input_camera(r, poses, fov)

CallUniMeshPath ==
    /\ call.fn = "idle"
    /\ \E n \in FrameNumbers, radius \in MeshRadii :
          /\ call' = [fn |-> "uni_mesh_path",
                      args |-> [frame_number |-> n, radius |-> radius],
                      draws |-> <<>>]
          /\ locals' = MeshLoop(n)
          /\ ret' = uni_mesh_path(n, radius)

\* The call is over; the caller is free to make the next one.
Return ==
    /\ call.fn # "idle"
    /\ call' = Idle
    /\ locals' = <<>>
    /\ ret' = NoResult

Next ==
    \/ CallCreateCam2World
    \/ CallGaussianSample
    \/ CallLookAtSample
    \/ CallUniformSample
    \/ CallFOVToIntrinsics
    \/ CallGenerateInputCamera
    \/ CallUniMeshPath
    \/ Return

Spec == Init /\ [][Next]_vars

NextCam == CallCreateCam2World \/ Return

SpecCam == Init /\ [][NextCam]_vars

NextSampler ==
    \/ CallGaussianSample
    \/ CallLookAtSample
    \/ CallUniformSample
    \/ Return

SpecSampler == Init /\ [][NextSampler]_vars

NextMesh == CallGenerateInputCamera \/ CallUniMeshPath \/ Return

SpecMesh == Init /\ [][NextMesh]_vars

SamplerNames ==
    {"GaussianCameraPoseSampler.sample", "LookAtPoseSampler.sample",
     "UniformCameraPoseSampler.sample"}

\* Exactness of the arithmetic on the calls made.
AllExact ==
    /\ call.fn \in SamplerNames \cup {"create_cam2world_matrix"} /\ ret.err = "none"
          => ExactMatrices(ret.val)
    /\ call.fn = "generate_input_camera" /\ ret.err = "none"
          => ExactMatrices(ret.val.cam2world)
    /\ call.fn = "uni_mesh_path" /\ ret.err = "none"
          => \A i \in 1..Len(ret.val) : \A j \in 1..25 : ExactScalar(ret.val[i][j])

(***************************************************************************)
(* The properties of the specification, by their identifiers.              *)
(***************************************************************************)
IsZeroVec(v) == IsZero(v[1]) /\ IsZero(v[2]) /\ IsZero(v[3])

\* A forward vector that is zero or parallel to the world-up vector (0, 1, 0).
Degenerate(f) == IsZeroVec(Cross(Vec(0, 1, 0), f))

PairedCam2WorldCall ==
    /\ call.fn = "create_cam2world_matrix"
    /\ Len(call.args.forward_vector) = Len(call.args.origin)
    /\ ret.err = "none"

BottomRow == <<Zero, Zero, Zero, One>>

\* C1: uni_mesh_path(frame_number >= 1, radius) returns 5 * frame_number rows
\* of 25 values each, the last 9 of every row being the fixed intrinsics
\* [1.3889, 0, 0.5, 0, 1.3889, 0.5, 0, 0, 0.0039].
FixedIntrinsics ==
    <<Rat(13889, 10000), Zero, Rat(1, 2), Zero, Rat(13889, 10000), Rat(1, 2),
      Zero, Zero, Rat(39, 10000)>>

C1_MeshPathRows ==
    call.fn = "uni_mesh_path" /\ call.args.frame_number >= 1
    => /\ ret.err = "none"
       /\ Len(ret.val) = 5 * call.args.frame_number
       /\ \A i \in 1..Len(ret.val) :
             /\ Len(ret.val[i]) = 25
             /\ SubSeq(ret.val[i], 17, 25) = FixedIntrinsics

C1_Witness ==
    /\ call.fn = "uni_mesh_path"
    /\ call.args.frame_number = 4
    /\ call.args.radius = One
    /\ Len(ret.val) = 20
    /\ SubSeq(ret.val[20], 17, 25) = FixedIntrinsics

\* C2 as claimed: for every batch of (forward, origin) pairs, row i of the
\* result has the translation column origin[i] and the bottom row [0, 0, 0, 1].
C2_TranslationAndBottomRow ==
    PairedCam2WorldCall
    => \A i \in 1..Len(ret.val) :
          /\ Column(ret.val[i], 4) = call.args.origin[i]
          /\ ret.val[i][4] = BottomRow

\* C2 as amended: the translation column is origin[i] for every forward
\* vector; the bottom row is [0, 0, 0, 1] exactly when the forward vector is
\* non-zero and not parallel to (0, 1, 0), and otherwise holds NaN (its last
\* entry is 1 in every case).
C2_TranslationAndBottomRowAmended ==
    PairedCam2WorldCall
    => \A i \in 1..Len(ret.val) :
          /\ Column(ret.val[i], 4) = call.args.origin[i]
          /\ ret.val[i][4][4] = One
          /\ ret.val[i][4] = BottomRow <=> ~Degenerate(call.args.forward_vector[i])
          /\ Degenerate(call.args.forward_vector[i]) => ret.val[i][4][1] = NaN

C2_Witness ==
    /\ PairedCam2WorldCall
    /\ Len(ret.val) = 2
    /\ call.args.forward_vector[1] = Vec(1, 2, 2)
    /\ call.args.forward_vector[2] = Vec(0, -3, 0)
    /\ Column(ret.val[1], 4) = Vec(1, 2, 3)
    /\ ret.val[1][4] = BottomRow
    /\ ret.val[2][4] # BottomRow

\* C3: for a forward vector that is non-zero and not parallel to (0, 1, 0),
\* the columns right, up, forward of the rotation block are pairwise
\* orthogonal and of unit length.
C3_Orthonormal ==
    PairedCam2WorldCall
    => \A i \in 1..Len(ret.val) :
          ~Degenerate(call.args.forward_vector[i])
          => \A a, b \in 1..3 :
                Dot(Column(ret.val[i], a), Column(ret.val[i], b))
                   = IF a = b THEN One ELSE Zero

C3_Witness ==
    /\ PairedCam2WorldCall
    /\ Len(ret.val) >= 1
    /\ call.args.forward_vector[1] = Vec(1, 1, 1)
    /\ Column(ret.val[1], 3) = <<Num(1, 3, 3), Num(1, 3, 3), Num(1, 3, 3)>>
    /\ Dot(Column(ret.val[1], 1), Column(ret.val[1], 2)) = Zero

\* C10 as claimed: forward x right = -up for the columns of the rotation block
\* (forward non-zero and not parallel to (0, 1, 0)).
C10_ForwardCrossRightIsMinusUp ==
    PairedCam2WorldCall
    => \A i \in 1..Len(ret.val) :
          ~Degenerate(call.args.forward_vector[i])
          => Cross(Column(ret.val[i], 3), Column(ret.val[i], 1))
                = VNeg(Column(ret.val[i], 2))

\* C10 as amended: forward x right = up.
C10_ForwardCrossRightIsUp ==
    PairedCam2WorldCall
    => \A i \in 1..Len(ret.val) :
          ~Degenerate(call.args.forward_vector[i])
          => Cross(Column(ret.val[i], 3), Column(ret.val[i], 1))
                = Column(ret.val[i], 2)

C10_Witness ==
    /\ PairedCam2WorldCall
    /\ Len(ret.val) >= 1
    /\ call.args.forward_vector[1] = Vec(0, 0, 1)
    /\ Column(ret.val[1], 1) = Vec(-1, 0, 0)
    /\ Column(ret.val[1], 2) = Vec(0, -1, 0)
    /\ Column(ret.val[1], 3) = Vec(0, 0, 1)

SamplerCall(name) == call.fn = name /\ call.args.batch_size >= 1 /\ ret.err = "none"

\* The result of the sample method the call is to, on other draws.
SampleOf(fn, a, draws) ==
    IF fn = "GaussianCameraPoseSampler.sample"
    THEN GaussianCameraPoseSampler_sample(a, draws)
    ELSE UniformCameraPoseSampler_sample(a, draws)

\* C4: with both standard deviations 0 the Gaussian and the Uniform sampler
\* return the same matrix for every row of the batch, whatever the draws of
\* the random source, and the camera origin lies at distance radius from the
\* world origin.
C4_ZeroStddevDeterministic ==
    /\ call.fn \in {"GaussianCameraPoseSampler.sample",
                    "UniformCameraPoseSampler.sample"}
    /\ call.args.batch_size >= 1
    /\ call.args.horizontal_stddev = Zero
    /\ call.args.vertical_stddev = Zero
    => /\ ret.err = "none"
       /\ Len(ret.val) = call.args.batch_size
       /\ \A i \in 1..Len(ret.val) :
             /\ ret.val[i] = ret.val[1]
             /\ Norm(Column(ret.val[i], 4)) = call.args.radius
       /\ \A d \in DrawsFor(call.args.batch_size,
                            IF call.fn = "GaussianCameraPoseSampler.sample"
                            THEN RandnDraws ELSE RandDraws) :
             SampleOf(call.fn, call.args, d) = ret

C4_Witness ==
    /\ SamplerCall("GaussianCameraPoseSampler.sample")
    /\ call.args.horizontal_stddev = Zero
    /\ call.args.vertical_stddev = Zero
    /\ call.args.batch_size = 2
    /\ call.args.radius = Two
    /\ call.draws[1] # call.draws[2]
    /\ ret.val[1] = ret.val[2]
    /\ Norm(Column(ret.val[2], 4)) = Two

C8_AzimuthZeroOnZAxis ==
    /\ SamplerCall("GaussianCameraPoseSampler.sample")
    /\ call.args.horizontal_mean = Zero
    /\ call.args.vertical_mean = Half
    /\ call.args.horizontal_stddev = Zero
    /\ call.args.vertical_stddev = Zero
    => \A i \in 1..Len(ret.val) :
          LET origin == Column(ret.val[i], 4)
          IN /\ origin[1] = Zero
             /\ origin[2] = Zero
             /\ origin[3] \in {call.args.radius, Neg(call.args.radius)}

\* The call sample(0, pi/2, radius = 1) puts the camera at (-1, 0, 0), on the
\* x axis.
C8_Witness ==
    /\ SamplerCall("GaussianCameraPoseSampler.sample")
    /\ call.args.horizontal_mean = Zero
    /\ call.args.vertical_mean = Half
    /\ call.args.horizontal_stddev = Zero
    /\ call.args.vertical_stddev = Zero
    /\ call.args.radius = One
    /\ Column(ret.val[1], 4) = Vec(-1, 0, 0)

ElevationRings == <<60, 30, 0, -30, -60>>

\* C6: generate_input_camera returns the pose matrices in the order of its
\* input poses, and uni_mesh_path's rows come ring after ring in the order of
\* the elevations 60, 30, 0, -30, -60: row k (from 0) is the camera of ring
\* k \div frame_number at azimuth (k % frame_number) * 360 / frame_number, so
\* that within a ring the azimuths start at 0, rise by 360 / frame_number
\* from row to row and stay below 360.
C6_RowOrder ==
    /\ call.fn = "generate_input_camera" /\ ret.err = "none"
       => /\ Len(ret.val.cam2world) = Len(call.args.poses)
          /\ \A i \in 1..Len(call.args.poses) :
                ret.val.cam2world[i]
                   = generate_input_camera(call.args.r, <<call.args.poses[i]>>,
                                           call.args.fov).val.cam2world[1]
    /\ call.fn = "uni_mesh_path" /\ ret.err = "none"
       => LET n == call.args.frame_number
          IN \A k \in 0..(5 * n - 1) :
                LET elevation == Whole(ElevationRings[(k \div n) + 1])
                    azimuth == Rat((k % n) * 360, n)
                IN /\ locals.elevations[k + 1] = elevation
                   /\ locals.azimuths[k + 1] = azimuth
                   /\ Less(locals.azimuths[k + 1], Whole(360))
                   /\ k % n = 0 => locals.azimuths[k + 1] = Zero
                   /\ k % n # 0
                      => Sub(locals.azimuths[k + 1], locals.azimuths[k]) = Rat(360, n)
                   /\ SubSeq(ret.val[k + 1], 1, 16)
                         = Flatten(generate_input_camera(
                                       call.args.radius, <<<<elevation, azimuth>>>>,
                                       Whole(30)).val.cam2world[1])

C6_Witness ==
    /\ call.fn = "uni_mesh_path"
    /\ call.args.frame_number = 3
    /\ call.args.radius = One
    /\ ret.err = "none"
    /\ locals.elevations[5] = Whole(30)
    /\ locals.azimuths[5] = Whole(120)
    /\ locals.elevations[7] = Zero
    /\ locals.azimuths[7] = Zero
    /\ ret.val[7][4] = One
    /\ ret.val[7] # ret.val[1]

\* C7 as claimed: a sample method called with batch_size <= 0,
\* FOV_to_intrinsics called with fov_degrees outside (0, 180) and
\* create_cam2world_matrix called with batches of different sizes raise an
\* invalid-argument error.
C7_InvalidArgumentsRejected ==
    /\ call.fn \in SamplerNames /\ call.args.batch_size <= 0
       => ret.err = "InvalidArgument"
    /\ call.fn = "FOV_to_intrinsics"
          /\ ~(0 < call.args.fov_degrees /\ call.args.fov_degrees < 180)
       => ret.err = "InvalidArgument"
    /\ call.fn = "create_cam2world_matrix"
          /\ Len(call.args.forward_vector) # Len(call.args.origin)
       => ret.err = "InvalidArgument"

\* C7 as amended: no function validates its arguments.  A sample method
\* returns an empty batch for batch_size = 0 and fails with the tensor
\* library's RuntimeError for batch_size < 0; FOV_to_intrinsics returns a
\* matrix for every fov_degrees whose tangent is not 0 (a negative focal
\* length for fov_degrees of 200) and fails with ZeroDivisionError for
\* fov_degrees = 0; create_cam2world_matrix broadcasts a single origin over
\* the forward vectors and fails with RuntimeError for any other mismatch.
C7_NoArgumentValidation ==
    /\ ret.err # "InvalidArgument"
    /\ call.fn \in SamplerNames
       => /\ call.args.batch_size = 0 => ret = Ok(<<>>)
          /\ call.args.batch_size < 0 <=> ret.err = "RuntimeError"
    /\ call.fn = "FOV_to_intrinsics"
       => /\ call.args.fov_degrees = 0 <=> ret.err = "ZeroDivisionError"
          /\ call.args.fov_degrees # 0
             => /\ ret.err = "none"
                /\ ret.val[1][1] = ret.val[2][2]
                /\ ret.val[3] = <<<<0, 1>>, <<0, 1>>, <<1, 1>>>>
          /\ call.args.fov_degrees \in {200, 270, -90} => ret.val[1][1][1] < 0
    /\ call.fn = "create_cam2world_matrix"
       => LET B == Len(call.args.forward_vector)
              O == Len(call.args.origin)
          IN /\ O \in {1, B} <=> ret.err = "none"
             /\ O \notin {1, B} <=> ret.err = "RuntimeError"
             /\ ret.err = "none" => Len(ret.val) = B
             /\ O = 1 /\ B = 2
                => Column(ret.val[2], 4) = call.args.origin[1]

C7_Witness ==
    /\ call.fn = "FOV_to_intrinsics"
    /\ call.args.fov_degrees = 200
    /\ ret.err = "none"
    /\ ret.val[1][1][1] < 0
====
